---- MODULE Spec2Model ----
(***************************************************************************)
(* State machine of the Component Comparator AI desktop application        *)
(* (src/main.py, class ComponentComparatorAI).                             *)
(*                                                                         *)
(* Every method of the class is an operator of the same name that maps the *)
(* object (a record `s` of its attributes, its widgets and the bits of the *)
(* environment it touches) to the object after the call, so that a handler *)
(* is the composition of the calls it makes, in the order of the source.   *)
(* The Tk main loop (main, root.mainloop()) dispatches one UI event at a   *)
(* time; a handler that blocks on an external call (PDF extraction, the    *)
(* remote model call) keeps the loop's only thread, which the model shows  *)
(* as pc # "idle" until the call's outcome is delivered.                   *)
(***************************************************************************)
EXTENDS Integers, Sequences, FiniteSets, TLC

VARIABLES
    spec_sheet_1_path, spec_sheet_1_text, spec_sheet_1_image_paths,
    spec_sheet_2_path, spec_sheet_2_text, spec_sheet_2_image_paths,
    mfg_pn_var_1, mfg_pn_var_2,
    model, chat_session, conversation_log, ai_history,
    api_key_configured, pending_user_image_path,
    conversation_history, comparison_treeview,
    send_button, user_input_entry, start_comparison_button, model_combobox,
    env_api_key, temp_image_dir,
    pc, frame, trace

vars == << spec_sheet_1_path, spec_sheet_1_text, spec_sheet_1_image_paths,
           spec_sheet_2_path, spec_sheet_2_text, spec_sheet_2_image_paths,
           mfg_pn_var_1, mfg_pn_var_2,
           model, chat_session, conversation_log, ai_history,
           api_key_configured, pending_user_image_path,
           conversation_history, comparison_treeview,
           send_button, user_input_entry, start_comparison_button, model_combobox,
           env_api_key, temp_image_dir,
           pc, frame, trace >>

-----------------------------------------------------------------------------
(* Values *)

\* Python's None, for the attributes that hold a string or None.
NoneV == "None"

\* The PDF files the file picker can return; the text extracted from a file is
\* represented by the file's name, so a text can be compared with a path.
Files == {"a.pdf", "b.pdf"}

\* Two entries of model_options_list.
model_options_list == {"models/gemini-1.5-flash", "models/gemini-2.0-flash"}

placeholder_text == "Select AI Model (after loading files)"

\* An optional keyword argument: <<>> is None, <<v>> is the value v.
Given(v) == << v >>
Omitted == << >>

-----------------------------------------------------------------------------
(* The object as a record *)

Self ==
    [ spec_sheet_1_path |-> spec_sheet_1_path,
      spec_sheet_1_text |-> spec_sheet_1_text,
      spec_sheet_1_image_paths |-> spec_sheet_1_image_paths,
      spec_sheet_2_path |-> spec_sheet_2_path,
      spec_sheet_2_text |-> spec_sheet_2_text,
      spec_sheet_2_image_paths |-> spec_sheet_2_image_paths,
      mfg_pn_var_1 |-> mfg_pn_var_1,
      mfg_pn_var_2 |-> mfg_pn_var_2,
      model |-> model,
      chat_session |-> chat_session,
      conversation_log |-> conversation_log,
      ai_history |-> ai_history,
      api_key_configured |-> api_key_configured,
      pending_user_image_path |-> pending_user_image_path,
      conversation_history |-> conversation_history,
      comparison_treeview |-> comparison_treeview,
      send_button |-> send_button,
      user_input_entry |-> user_input_entry,
      start_comparison_button |-> start_comparison_button,
      model_combobox |-> model_combobox,
      env_api_key |-> env_api_key,
      temp_image_dir |-> temp_image_dir,
      pc |-> pc,
      frame |-> frame,
      trace |-> trace,
      \* hasattr(self, 'conversation_history'): the widgets exist once _setup_ui ran
      has_conversation_history |-> TRUE ]

\* The object after a step.
Commit(s) ==
    /\ spec_sheet_1_path' = s.spec_sheet_1_path
    /\ spec_sheet_1_text' = s.spec_sheet_1_text
    /\ spec_sheet_1_image_paths' = s.spec_sheet_1_image_paths
    /\ spec_sheet_2_path' = s.spec_sheet_2_path
    /\ spec_sheet_2_text' = s.spec_sheet_2_text
    /\ spec_sheet_2_image_paths' = s.spec_sheet_2_image_paths
    /\ mfg_pn_var_1' = s.mfg_pn_var_1
    /\ mfg_pn_var_2' = s.mfg_pn_var_2
    /\ model' = s.model
    /\ chat_session' = s.chat_session
    /\ conversation_log' = s.conversation_log
    /\ ai_history' = s.ai_history
    /\ api_key_configured' = s.api_key_configured
    /\ pending_user_image_path' = s.pending_user_image_path
    /\ conversation_history' = s.conversation_history
    /\ comparison_treeview' = s.comparison_treeview
    /\ send_button' = s.send_button
    /\ user_input_entry' = s.user_input_entry
    /\ start_comparison_button' = s.start_comparison_button
    /\ model_combobox' = s.model_combobox
    /\ env_api_key' = s.env_api_key
    /\ temp_image_dir' = s.temp_image_dir
    /\ pc' = s.pc
    /\ frame' = s.frame
    /\ trace' = s.trace

\* The object at start-up.
Constructed(s) ==
    /\ spec_sheet_1_path = s.spec_sheet_1_path
    /\ spec_sheet_1_text = s.spec_sheet_1_text
    /\ spec_sheet_1_image_paths = s.spec_sheet_1_image_paths
    /\ spec_sheet_2_path = s.spec_sheet_2_path
    /\ spec_sheet_2_text = s.spec_sheet_2_text
    /\ spec_sheet_2_image_paths = s.spec_sheet_2_image_paths
    /\ mfg_pn_var_1 = s.mfg_pn_var_1
    /\ mfg_pn_var_2 = s.mfg_pn_var_2
    /\ model = s.model
    /\ chat_session = s.chat_session
    /\ conversation_log = s.conversation_log
    /\ ai_history = s.ai_history
    /\ api_key_configured = s.api_key_configured
    /\ pending_user_image_path = s.pending_user_image_path
    /\ conversation_history = s.conversation_history
    /\ comparison_treeview = s.comparison_treeview
    /\ send_button = s.send_button
    /\ user_input_entry = s.user_input_entry
    /\ start_comparison_button = s.start_comparison_button
    /\ model_combobox = s.model_combobox
    /\ env_api_key = s.env_api_key
    /\ temp_image_dir = s.temp_image_dir
    /\ pc = s.pc
    /\ frame = s.frame
    /\ trace = s.trace

-----------------------------------------------------------------------------
(* ttk widget state.  A ttk widget keeps state flags (widget.state([...]))  *)
(* and, for compatibility, a -state option (widget.config(state=...),      *)
(* widget.cget('state')).  Setting the option sets the flags; the state    *)
(* command changes the flags and leaves the option as it was.              *)

\* model_combobox.state(["disabled"])
ttk_state_disabled(w) == [w EXCEPT !.disabled = TRUE]

\* model_combobox.config(state=value)
ttk_config_state(w, value) ==
    [w EXCEPT !.option = value, !.disabled = (value = "disabled")]

\* model_combobox.cget('state')
ttk_cget_state(w) == w.option

\* model_combobox.set(text)
ttk_set(w, text) == [w EXCEPT !.value = text]

-----------------------------------------------------------------------------
(* Transcript *)

update_conversation_history(s, message, role) ==
    LET entry == [role |-> role, content |-> message]
    IN  [s EXCEPT !.conversation_history =
                      IF s.has_conversation_history THEN Append(@, entry) ELSE @,
                  !.conversation_log = Append(@, entry)]

\* A variant that leaves the widgets as they are.
_update_ui_for_ai_status_skipped(s, api_key_configured_arg, model_initialized_arg) == s

_update_ui_for_ai_status(s, api_key_configured_arg, model_initialized_arg) ==
    LET is_api_key_ready == IF api_key_configured_arg # Omitted
                            THEN api_key_configured_arg[1] ELSE s.api_key_configured
        is_model_ready == IF model_initialized_arg # Omitted
                          THEN model_initialized_arg[1] ELSE s.model # NoneV
        can_perform_ai_ops == is_api_key_ready /\ is_model_ready
        state == IF can_perform_ai_ops THEN "normal" ELSE "disabled"
    IN  [s EXCEPT !.send_button = state,
                  !.user_input_entry = state,
                  !.model_combobox = IF ttk_cget_state(@) # "disabled"
                                     THEN ttk_config_state(@, "readonly") ELSE @]

\* A variant that takes the key as present without looking.
_configure_ai_without_test(s) ==
    LET s1 == [s EXCEPT !.api_key_configured = TRUE]
    IN  _update_ui_for_ai_status(s1, Given(s1.api_key_configured), Given(s1.model # NoneV))

\* genai.configure only records the key, so its except branch is not an outcome.
_configure_ai(s) ==
    LET s1 == [s EXCEPT !.api_key_configured = s.env_api_key]
    IN  _update_ui_for_ai_status(s1, Given(s1.api_key_configured), Given(s1.model # NoneV))

\* makedirs_ok: whether os.makedirs succeeds when the directory is missing.
_create_temp_image_dir(s, makedirs_ok) ==
    IF s.temp_image_dir = "missing"
    THEN IF makedirs_ok
         THEN [s EXCEPT !.temp_image_dir = "empty"]
         ELSE update_conversation_history(
                  [s EXCEPT !.trace = [@ EXCEPT !.fs_failed = TRUE]],
                  "System: Error creating temp folder", "error")
    ELSE s

-----------------------------------------------------------------------------
(* Construction *)

\* The handler-local values that live across a blocking call, and the
\* argument and the steps of a call of _format_ai_response.
NoFrame == [image_sent_this_turn |-> FALSE, text_response |-> << >>, steps |-> << >>]

\* What the run of the current (or, when idle, the last) handler did:
\*   selected     the run is a model selection
\*   previous_model_name  the model that was set when the selection was made
\*   overlap      the run began while another run was waiting for a call
\*   calls        remote calls issued in this run
\*   issued_at    the length of the transcript when the last call was issued
\*   request_options  the timeout the last call was given, if it was given one
\*   failed       a remote call of this run failed (raised, or its prompt was blocked)
\*   failed_from  the length of the transcript when the call that failed was issued
\*   after        a remote call was issued in this run after one had failed
\*   uncaught     the exception that left the handler
\*   texts        the sheets whose text this run extracted
\*   text_failed  a text extraction of this run raised or gave no text
\*   extracted    this run wrote image files
\*   response     what the initial-analysis call of this run gave back
\*   parsed       the Functionally_Similar value the parser stored for it
\*   cleared      this run called clear_all: "files" (clear_files) or "context"
\*   ai_history_cleared  this run assigned [] to ai_history
\*   dir_before   temp_image_dir when clear_all was called
\*   fs_failed    rmtree or makedirs failed in this run
\*   download     the outcome of download_history in this run
\*   log_before   conversation_log when download_history began
\*   saved_doc    the document download_history saved
\*   comparison   the run is a detailed comparison
\*   detailed     what send_to_ai returned for stage 2 in this run
\* and across runs:
\*   events       handler runs that wrote to the transcript since it was last emptied
\*   reset        a model-resetting error was handled and no model selected since
NoTrace == [selected |-> FALSE, overlap |-> FALSE, calls |-> 0, issued_at |-> 0,
            failed |-> FALSE, failed_from |-> 0, after |-> FALSE, uncaught |-> "",
            texts |-> {}, text_failed |-> FALSE, extracted |-> FALSE,
            response |-> "", parsed |-> "", previous_model_name |-> "",
            ai_history_cleared |-> FALSE, request_options |-> << >>,
            cleared |-> "", dir_before |-> "", fs_failed |-> FALSE,
            download |-> "", log_before |-> << >>, saved_doc |-> << >>,
            comparison |-> FALSE, detailed |-> [kind |-> "None", body |-> ""],
            events |-> 0, reset |-> FALSE]

_setup_ui(s) ==
    [s EXCEPT !.has_conversation_history = TRUE,
              !.model_combobox = ttk_state_disabled(ttk_set(
                  [option |-> "normal", disabled |-> FALSE, value |-> ""], placeholder_text)),
              !.conversation_history = << >>,
              !.comparison_treeview = << >>,
              !.send_button = "normal",
              !.user_input_entry = "normal",
              !.start_comparison_button = "disabled"]

\* api_key: whether GOOGLE_API_KEY is set; dir: the temp_images directory as the
\* previous run left it; makedirs_ok: whether it can be created when missing.
__init__(api_key, dir, makedirs_ok) ==
    LET s0 == [ spec_sheet_1_path |-> NoneV, spec_sheet_1_text |-> NoneV,
                spec_sheet_1_image_paths |-> << >>,
                spec_sheet_2_path |-> NoneV, spec_sheet_2_text |-> NoneV,
                spec_sheet_2_image_paths |-> << >>,
                mfg_pn_var_1 |-> "", mfg_pn_var_2 |-> "",
                model |-> NoneV, chat_session |-> NoneV,
                conversation_log |-> << >>, ai_history |-> << >>,
                api_key_configured |-> FALSE, pending_user_image_path |-> NoneV,
                conversation_history |-> << >>, comparison_treeview |-> << >>,
                send_button |-> "normal", user_input_entry |-> "normal",
                start_comparison_button |-> "disabled",
                model_combobox |-> [option |-> "normal", disabled |-> FALSE, value |-> ""],
                env_api_key |-> api_key, temp_image_dir |-> dir,
                pc |-> "idle", frame |-> NoFrame, trace |-> NoTrace,
                has_conversation_history |-> FALSE ]
        s1 == _create_temp_image_dir(s0, makedirs_ok)
        s2 == _configure_ai(_setup_ui(s1))
        s3 == update_conversation_history(s2,
                  "System: Welcome! Please load two PDF specification sheets to compare.",
                  "system")
    IN  _update_ui_for_ai_status(s3, Given(s3.api_key_configured), Given(FALSE))

Init ==
    \E api_key \in BOOLEAN, dir \in {"missing", "empty", "images"}, makedirs_ok \in BOOLEAN :
        Constructed(__init__(api_key, dir, makedirs_ok))

-----------------------------------------------------------------------------
(* Files *)

\* filepath = "" is the dialog cancelled.
load_spec_sheet_1(s, filepath) ==
    IF filepath # ""
    THEN LET s1 == [s EXCEPT !.spec_sheet_1_path = filepath]
         IN  IF s1.spec_sheet_1_path # NoneV /\ s1.spec_sheet_2_path # NoneV
             THEN update_conversation_history(
                      [s1 EXCEPT !.model_combobox = ttk_config_state(@, "readonly")],
                      "System: Both spec sheets loaded. Please select an AI model.", "system")
             ELSE s1
    ELSE s

load_spec_sheet_2(s, filepath) ==
    IF filepath # ""
    THEN LET s1 == [s EXCEPT !.spec_sheet_2_path = filepath]
         IN  IF s1.spec_sheet_1_path # NoneV /\ s1.spec_sheet_2_path # NoneV
             THEN update_conversation_history(
                      [s1 EXCEPT !.model_combobox = ttk_config_state(@, "readonly")],
                      "System: Both spec sheets loaded. Please select an AI model.", "system")
             ELSE s1
    ELSE s

\* A variant that leaves the directory alone.
rmtree_skipped(s, rmtree_ok) == s

\* if os.path.exists(dir): try shutil.rmtree(dir), except OSError: print.
\* rmtree_ok: whether shutil.rmtree succeeds.
rmtree_if_exists(s, rmtree_ok) ==
    IF s.temp_image_dir = "missing" THEN s
    ELSE IF rmtree_ok THEN [s EXCEPT !.temp_image_dir = "missing"]
    ELSE [s EXCEPT !.trace = [@ EXCEPT !.fs_failed = TRUE]]

\* rmtree_ok, makedirs_ok: as above.
clear_all(s0, clear_files, rmtree_ok, makedirs_ok) ==
    LET s == [s0 EXCEPT !.trace = [@ EXCEPT !.cleared = IF clear_files THEN "files"
                                                        ELSE "context",
                                            !.ai_history_cleared = TRUE,
                                            !.dir_before = s0.temp_image_dir]]
        s1 == IF clear_files
              THEN _create_temp_image_dir(
                       rmtree_if_exists(
                           [s EXCEPT !.spec_sheet_1_path = NoneV, !.spec_sheet_1_text = NoneV,
                                     !.spec_sheet_1_image_paths = << >>,
                                     !.spec_sheet_2_path = NoneV, !.spec_sheet_2_text = NoneV,
                                     !.spec_sheet_2_image_paths = << >>,
                                     !.mfg_pn_var_1 = "", !.mfg_pn_var_2 = "",
                                     !.model_combobox =
                                         ttk_state_disabled(ttk_set(@, placeholder_text))],
                           rmtree_ok),
                       makedirs_ok)
              ELSE s
        s2 == [s1 EXCEPT !.pending_user_image_path = NoneV,
                         !.conversation_history = << >>,
                         !.comparison_treeview = << >>,
                         !.conversation_log = << >>,
                         !.ai_history = << >>]
        s3 == IF clear_files
              THEN update_conversation_history(s2, "System: Welcome! Load PDFs to start.",
                                               "system")
              ELSE s2
        s4 == _configure_ai([s3 EXCEPT !.model = NoneV, !.chat_session = NoneV])
        s5 == IF ~clear_files /\ s4.spec_sheet_1_path # NoneV /\ s4.spec_sheet_2_path # NoneV
              THEN update_conversation_history(
                       [s4 EXCEPT !.model_combobox = ttk_config_state(@, "readonly")],
                       "System: AI context cleared. Files remain. Select model.", "system")
              ELSE IF clear_files
                   THEN [s4 EXCEPT !.model_combobox = ttk_state_disabled(@)]
                   ELSE s4
        s6 == [s5 EXCEPT !.start_comparison_button = "disabled"]
    IN  _update_ui_for_ai_status(s6, Given(s6.api_key_configured), Given(FALSE))

-----------------------------------------------------------------------------
(* Exceptions and remote outcomes *)

\* Exception classes a remote call raises (google.api_core.exceptions, the SDK's
\* own, and Python's); DeadlineExceeded stands for every class the handlers
\* name nowhere (timeouts, connection errors, server errors).
RemoteExceptions ==
    {"InvalidArgument", "ValueError", "BlockedPromptException", "StopCandidateException",
     "NotFound", "PermissionDenied", "Unauthenticated", "DeadlineExceeded"}

\* `except google_exceptions.GoogleAPIError as e`, a narrower clause.
except_GoogleAPIError(e) ==
    e \in {"InvalidArgument", "NotFound", "PermissionDenied", "Unauthenticated",
           "DeadlineExceeded"}

\* `except Exception as e`: every class above, and the AttributeError of the
\* parser, derives from Exception.
except_Exception(e) == TRUE

\* The kinds of error after which the application is to drop its model.
ModelResettingKinds ==
    {"InvalidArgument", "ValueError", "BlockedPromptException", "StopCandidateException",
     "NotFound", "PermissionDenied"}

\* isinstance(e, (PermissionDenied, Unauthenticated))
is_credential_error(e) == e \in {"PermissionDenied", "Unauthenticated"}

\* A variant that resets the model on a denied permission only.
is_permission_denied(e) == e = "PermissionDenied"

\* isinstance(e, (InvalidArgument, ValueError, BlockedPromptException,
\*                StopCandidateException, NotFound, PermissionDenied))
is_model_resetting_error(e) ==
    e \in {"InvalidArgument", "ValueError", "BlockedPromptException",
           "StopCandidateException", "NotFound", "PermissionDenied"}

\* Sample response texts of the remote model:
\*   labels_yes   the five labelled lines, Functionally_Similar: Yes, both part numbers
\*   table        a markdown pipe table with data rows, none of the labels
\*   json_array   valid JSON that is not an object
\*   labels_yes_no  two lines Functionally_Similar: the first Yes, the second No
Bodies == {"labels_yes", "table", "json_array", "labels_yes_no"}

\* What generate_content gives back: an exception, or a response whose prompt
\* was blocked, that has no candidates or text, or that has a text.
GenerateOutcomes ==
    [kind : {"raise"}, exc : RemoteExceptions, body : {""}]
        \cup [kind : {"blocked", "empty"}, exc : {""}, body : {""}]
        \cup [kind : {"text"}, exc : {""}, body : Bodies]

\* What chat_session.send_message followed by response.text gives back.
ChatOutcomes ==
    [kind : {"raise"}, exc : RemoteExceptions, body : {""}]
        \cup [kind : {"text"}, exc : {""}, body : {"labels_yes", "table"}]

\* The value send_to_ai returns:
\*   None        None
\*   exception   f"AI Error: {e}"
\*   blocked     f"AI Error - Prompt was blocked. Reason: {block_reason}"
\*   empty       "AI response empty/no content."
\*   text        response.text
Returned(kind, body) == [kind |-> kind, body |-> body]

\* not text
falsy(text) == text.kind = "None"

\* text.startswith("AI Error:")
startswith_AI_Error_colon(text) == text.kind = "exception"

\* "AI Error" in text
contains_AI_Error(text) == text.kind \in {"exception", "blocked"}

\* "empty/no content" in text
contains_empty_no_content(text) == text.kind = "empty"

_add_to_ai_history(s, role, text_content) ==
    [s EXCEPT !.ai_history = Append(@, [role |-> role, parts |-> text_content])]

\* The entries start_chat is seeded with.
_convert_log_to_gemini_history(s) ==
    SelectSeq(s.ai_history, LAMBDA e : e.role \in {"user", "model"})

\* The call leaves the process: the handler waits at `label` for its outcome.
issue(s, label) ==
    [s EXCEPT !.pc = label,
              !.trace = [@ EXCEPT !.calls = @ + 1,
                                  !.issued_at = Len(s.conversation_history),
                                  !.after = @ \/ s.trace.failed]]

\* request_options={'timeout': 600}
request_options_timeout == 600

\* The call is made with the given request options: Given(timeout) or Omitted.
with_request_options(s, timeout_arg) ==
    [s EXCEPT !.trace = [@ EXCEPT !.request_options = timeout_arg]]

\* The outcome of the outstanding call arrives.
deliver(s, outcome) ==
    IF outcome.kind \in {"raise", "blocked"}
    THEN [s EXCEPT !.trace = [@ EXCEPT !.failed = TRUE,
                                       !.failed_from = s.trace.issued_at,
                                       !.reset = @ \/ outcome.exc \in ModelResettingKinds]]
    ELSE s

-----------------------------------------------------------------------------
(* Model selection *)

\* content.startswith("System: Welcome!")
startswith_Welcome(content) ==
    content \in {"System: Welcome! Please load two PDF specification sheets to compare.",
                 "System: Welcome! Load PDFs to start."}

\* model_name_arg: the name, or Omitted for the combobox's text.  The result is
\* the object and the value returned.  genai.GenerativeModel only records the
\* name, so its except branch is not an outcome.
_initialize_model(s, model_name_arg) ==
    LET model_name == IF model_name_arg = Omitted THEN s.model_combobox.value
                      ELSE model_name_arg[1]
        fail(s1) == [self |-> _update_ui_for_ai_status(
                                  [s1 EXCEPT !.model = NoneV, !.chat_session = NoneV],
                                  Omitted, Given(FALSE)),
                     ret |-> FALSE]
        s_target == update_conversation_history(s, "System: _initialize_model. Target",
                                                "system")
        s_init == update_conversation_history(s_target, "System: Initializing model...",
                                              "system")
        s_conf == IF \A i \in 1..Len(s_init.conversation_log) :
                         s_init.conversation_log[i].content
                             # "System: Generative AI configured successfully."
                  THEN update_conversation_history(s_init,
                           "System: Generative AI configured successfully.", "system")
                  ELSE s_init
    IN  IF model_name = placeholder_text
        THEN fail(update_conversation_history(s, "System: Select valid model.", "system"))
        ELSE IF model_name \notin model_options_list
        THEN fail(update_conversation_history(s_target, "System: Invalid model. Aborted.",
                                              "error"))
        ELSE IF s_target.model = model_name /\ s_target.api_key_configured
        THEN [self |-> _update_ui_for_ai_status(
                           update_conversation_history(s_target,
                               "System: Model already active.", "system"),
                           Omitted, Given(TRUE)),
              ret |-> TRUE]
        ELSE IF ~s_target.api_key_configured
        THEN fail(update_conversation_history(s_target,
                      "System: Cannot init model - API key not set.", "error"))
        ELSE [self |-> _update_ui_for_ai_status(
                           update_conversation_history(
                               [s_conf EXCEPT !.model = model_name, !.chat_session = NoneV],
                               "System: Successfully initialized model", "system"),
                           Omitted, Given(TRUE)),
              ret |-> TRUE]

-----------------------------------------------------------------------------
(* PDF extraction.  The sample files: a.pdf embeds an image, b.pdf embeds  *)
(* none.  Reading the text of a file is the environment's:                  *)
(*   error    fitz raises                                                   *)
(*   empty    the PDF has no text layer                                     *)
(*   ok       the PDF has text                                              *)

TextOutcomes == {"error", "empty", "ok"}

\* The text of the file at filepath.
TextOf(filepath) == filepath

\* The images embedded in the file at filepath, as the paths they are saved to.
ImagesOf(filepath) == IF filepath = "a.pdf" THEN << filepath >> ELSE << >>

\* The dialog only hands over files that exist, so the os.path.exists test
\* is passed unless the path is None.
extract_text_from_pdf(s, filepath, outcome) ==
    IF filepath = NoneV
    THEN [self |-> update_conversation_history(s, "System: PDF not found", "error"),
          ret |-> ""]
    ELSE LET s1 == update_conversation_history(s, "System: Extracting text...", "system")
         IN  IF outcome = "error"
             THEN [self |-> update_conversation_history(s1,
                                "System: Error extracting text", "error"),
                   ret |-> ""]
             ELSE [self |-> update_conversation_history(s1,
                                "System: Text extraction OK", "system"),
                   ret |-> IF outcome = "ok" THEN TextOf(filepath) ELSE ""]

\* A variant that goes on whatever the text.
not_text_never(text) == FALSE

\* not self.spec_sheet_1_text
not_text(text) == text \in {NoneV, ""}

\* The run's record of a text extraction of the given sheet.
extracted_text(s, sheet, text) ==
    [s EXCEPT !.trace = IF text = "" THEN [@ EXCEPT !.text_failed = TRUE]
                        ELSE [@ EXCEPT !.texts = @ \cup {sheet}]]

\* The images are written below temp_image_dir; the result lists their paths.
\* It runs after the text of the same file was read, so fitz opens the file.
extract_images_from_pdf(s, filepath) ==
    IF filepath = NoneV
    THEN [self |-> update_conversation_history(s, "System: PDF not found", "error"),
          ret |-> << >>]
    ELSE LET s1 == update_conversation_history(s, "System: Extracting images...", "system")
         IN  IF ImagesOf(filepath) # << >>
             THEN [self |-> update_conversation_history(
                                [s1 EXCEPT !.temp_image_dir = "images",
                                           !.trace = [@ EXCEPT !.extracted = TRUE]],
                                "System: Extracted images", "system"),
                   ret |-> ImagesOf(filepath)]
             ELSE [self |-> update_conversation_history(s1,
                                "System: No images found", "system"),
                   ret |-> << >>]

-----------------------------------------------------------------------------
(* The remote call of the analyses *)

\* The handler returns to the main loop.
return_to_mainloop(s) == [s EXCEPT !.pc = "idle", !.frame = NoFrame]

\* An exception leaves the handler: Tk reports it and the main loop goes on.
propagate(s, e) == [return_to_mainloop(s) EXCEPT !.trace = [@ EXCEPT !.uncaught = e]]

\* json.loads(cleaned_response_text): "decode_error" for a text that is not
\* JSON, "not_object" for JSON whose value has no get method.
json_loads(body) == IF body = "json_array" THEN "not_object" ELSE "decode_error"

\* The lines of response_text.split('\n') that start with one of the labels,
\* in the order of the text, as << label, line.split(":", 1)[1].strip() >>.
label_lines(body) ==
    IF body = "labels_yes"
    THEN << << "Component1_Type", "Resistor" >>, << "Component2_Type", "Resistor" >>,
            << "Functionally_Similar", "Yes" >>,
            << "MFG_PN1", "PN-1" >>, << "MFG_PN2", "PN-2" >> >>
    ELSE IF body = "labels_yes_no"
    THEN << << "Functionally_Similar", "Yes" >>, << "Functionally_Similar", "No" >> >>
    ELSE << >>

\* similarity_text.lower().startswith("yes") or similarity_text.startswith(shi),
\* shi being the Chinese character for yes, written "shi" here.
begins_with_yes(similarity_text) == similarity_text \in {"Yes", "yes", "shi"}

\* The for loop of the line-by-line parser from line k on.
RECURSIVE parse_lines(_, _, _)
parse_lines(lines, k, data) ==
    IF k > Len(lines) THEN data
    ELSE LET label == lines[k][1]
             value == lines[k][2]
         IN  parse_lines(lines, k + 1,
                 IF label = "Functionally_Similar"
                 THEN [data EXCEPT !.functionally_similar = value,
                                   !.is_similar_flag = IF begins_with_yes(value) THEN TRUE
                                                       ELSE @]
                 ELSE IF label = "MFG_PN1" THEN [data EXCEPT !.mfg_pn1 = value]
                 ELSE IF label = "MFG_PN2" THEN [data EXCEPT !.mfg_pn2 = value]
                 ELSE data)

\* The result is the parsed data, or the exception the parser lets through:
\* json.loads accepts json_array and parsed_json.get then raises AttributeError;
\* every other text fails json.loads and is read line by line.
_parse_initial_analysis_response(response_text) ==
    LET data == [raised |-> "", functionally_similar |-> "Unknown",
                 is_similar_flag |-> FALSE,
                 mfg_pn1 |-> "Not Found", mfg_pn2 |-> "Not Found"]
    IN  IF response_text.kind = "text" /\ json_loads(response_text.body) = "not_object"
        THEN [data EXCEPT !.raised = "AttributeError"]
        ELSE parse_lines(label_lines(response_text.body), 1, data)

\* The run's record of the initial analysis.
analysed(s, outcome, parsed_info) ==
    [s EXCEPT !.trace = [@ EXCEPT !.response = outcome.kind,
                                  !.parsed = IF parsed_info.raised = ""
                                             THEN parsed_info.functionally_similar
                                             ELSE ""]]

\* send_to_ai up to generate_content: the object waits at `label`, unless no
\* model is set and the method returned None at once.
send_to_ai_begin(s, is_initial_analysis, label) ==
    IF s.model = NoneV
    THEN update_conversation_history(s, "System: AI model N/A.", "error")
    ELSE LET s1 == update_conversation_history(
                       [s EXCEPT !.send_button = "disabled",
                                 !.user_input_entry = "disabled",
                                 !.start_comparison_button = "disabled"],
                       "System: Sending to AI... May take time.", "system")
             s2 == IF is_initial_analysis
                   THEN _add_to_ai_history(s1, "user", "User: Initial analysis")
                   ELSE s1
         IN  with_request_options(issue(s2, label), Given(request_options_timeout))

\* The except clause of send_to_ai, and its finally.
send_to_ai_except(s, e) ==
    IF except_Exception(e)
    THEN LET s1 == _add_to_ai_history(
                       update_conversation_history(s, "System: Error with AI", "error"),
                       "model", "Error")
             s2 == [s1 EXCEPT !.start_comparison_button = "disabled",
                              !.api_key_configured =
                                  IF is_credential_error(e) THEN FALSE ELSE @]
             s3 == IF is_model_resetting_error(e)
                   THEN [update_conversation_history(s2,
                             "System: Resetting model due to error.", "system")
                         EXCEPT !.model = NoneV, !.chat_session = NoneV,
                                !.ai_history = << >>,
                                !.trace = [@ EXCEPT !.ai_history_cleared = TRUE]]
                   ELSE s2
         IN  [self |-> _update_ui_for_ai_status(s3, Omitted, Omitted),
              ret |-> Returned("exception", ""), raised |-> ""]
    ELSE [self |-> _update_ui_for_ai_status(s, Omitted, Omitted),
          ret |-> Returned("None", ""), raised |-> e]

\* send_to_ai from the outcome of generate_content to its return: the object,
\* the value returned, and the exception that leaves the method ("" for none).
send_to_ai_end(s0, is_initial_analysis, outcome) ==
    LET s == deliver(s0, outcome)
        raw_ai_response_text ==
            IF outcome.kind = "text" THEN Returned("text", outcome.body)
            ELSE Returned(outcome.kind, "")
        s1 == IF outcome.kind = "blocked"
              THEN update_conversation_history(s,
                       "System: AI Error - Prompt was blocked.", "error")
              ELSE IF outcome.kind = "empty"
              THEN update_conversation_history(s,
                       "System: AI response empty/no content.", "system")
              ELSE update_conversation_history(s, outcome.body, "ai")
        s2 == _add_to_ai_history(s1, "model",
                                 IF outcome.kind = "text" THEN outcome.body ELSE outcome.kind)
        parsed_info == _parse_initial_analysis_response(raw_ai_response_text)
        s3 == analysed([s2 EXCEPT !.chat_session = NoneV], outcome, parsed_info)
        s4 == update_conversation_history(update_conversation_history(
              update_conversation_history(update_conversation_history(s3,
                  "System: Initial Analysis Parsed Data:", "system"),
                  "  Component 1 Type", "system"),
                  "  Component 2 Type", "system"),
                  "  Functionally Similar", "system")
        s5 == update_conversation_history(
                  [s4 EXCEPT !.mfg_pn_var_1 = IF parsed_info.mfg_pn1 # "Not Found"
                                              THEN parsed_info.mfg_pn1 ELSE ""],
                  "  MFG P/N 1 set", "system")
        s6 == update_conversation_history(
                  [s5 EXCEPT !.mfg_pn_var_2 = IF parsed_info.mfg_pn2 # "Not Found"
                                              THEN parsed_info.mfg_pn2 ELSE ""],
                  "  MFG P/N 2 set", "system")
        s7 == IF parsed_info.is_similar_flag
                  /\ ~(contains_AI_Error(raw_ai_response_text)
                       \/ contains_empty_no_content(raw_ai_response_text))
              THEN update_conversation_history(
                       [s6 EXCEPT !.start_comparison_button = "normal"],
                       "System: Components appear functionally similar.", "system")
              ELSE update_conversation_history(
                       [s6 EXCEPT !.start_comparison_button = "disabled"],
                       "System: Components may not be functionally similar.", "system")
    IN  IF outcome.kind = "raise"
        THEN send_to_ai_except(IF is_initial_analysis
                               THEN analysed(s, outcome, [raised |-> outcome.exc])
                               ELSE s,
                               outcome.exc)
        ELSE IF ~is_initial_analysis
        THEN [self |-> _update_ui_for_ai_status(s2, Omitted, Omitted),
              ret |-> raw_ai_response_text, raised |-> ""]
        ELSE IF parsed_info.raised # ""
        THEN send_to_ai_except(s3, parsed_info.raised)
        ELSE [self |-> _update_ui_for_ai_status(s7, Omitted, Omitted),
              ret |-> raw_ai_response_text, raised |-> ""]

-----------------------------------------------------------------------------
(* The initial analysis *)

process_spec_sheets_begin(s) ==
    IF s.model = NoneV \/ ~s.api_key_configured
           \/ s.spec_sheet_1_path = NoneV \/ s.spec_sheet_2_path = NoneV
    THEN update_conversation_history(s, "System: Pre-reqs not met.", "error")
    ELSE [update_conversation_history(s, "System: Starting initial analysis...", "system")
          EXCEPT !.pc = "extract_1"]

\* From the text extraction of sheet 1 to that of sheet 2.  os.listdir raises
\* FileNotFoundError when temp_image_dir is missing, and nothing catches it.
process_spec_sheets_sheet_1(s, text_outcome) ==
    LET text == extract_text_from_pdf(s, s.spec_sheet_1_path, text_outcome)
        s1 == extracted_text([text.self EXCEPT !.spec_sheet_1_text = text.ret], 1, text.ret)
        images == extract_images_from_pdf(s1, s1.spec_sheet_1_path)
    IN  IF not_text(s1.spec_sheet_1_text)
        THEN return_to_mainloop(update_conversation_history(s1,
                 "System: Halting. Text extract fail.", "error"))
        ELSE IF s1.temp_image_dir = "missing"
        THEN propagate(s1, "FileNotFoundError")
        ELSE [images.self EXCEPT !.spec_sheet_1_image_paths = images.ret,
                                 !.pc = "extract_2"]

\* From the text extraction of sheet 2 to generate_content.
process_spec_sheets_sheet_2(s, text_outcome) ==
    LET text == extract_text_from_pdf(s, s.spec_sheet_2_path, text_outcome)
        s1 == extracted_text([text.self EXCEPT !.spec_sheet_2_text = text.ret], 2, text.ret)
        images == extract_images_from_pdf(s1, s1.spec_sheet_2_path)
        s2 == [images.self EXCEPT !.spec_sheet_2_image_paths = images.ret]
    IN  IF not_text(s1.spec_sheet_2_text)
        THEN return_to_mainloop(update_conversation_history(s1,
                 "System: Halting. Text extract fail.", "error"))
        ELSE IF s1.temp_image_dir = "missing"
        THEN propagate(s1, "FileNotFoundError")
        ELSE send_to_ai_begin(s2, TRUE, "generate_content_initial")

check_and_process_spec_sheets(s) ==
    IF s.spec_sheet_1_path = NoneV \/ s.spec_sheet_2_path = NoneV
    THEN s
    ELSE IF ~s.api_key_configured
    THEN update_conversation_history(s, "System: API Key not configured.", "error")
    ELSE IF s.model = NoneV
    THEN update_conversation_history(s, "System: AI Model not selected.", "system")
    ELSE LET s1 == [s EXCEPT !.conversation_log = << >>, !.ai_history = << >>,
                             !.conversation_history = << >>,
                             !.comparison_treeview = << >>,
                             !.trace = [@ EXCEPT !.ai_history_cleared = TRUE]]
             s2 == IF s1.api_key_configured
                   THEN update_conversation_history(s1, "System: AI Configured.", "system")
                   ELSE s1
             s3 == IF s2.model # NoneV
                   THEN update_conversation_history(s2, "System: Model active.", "system")
                   ELSE s2
         IN  process_spec_sheets_begin(s3)

\* A variant that changes the model and keeps the context.
_on_model_selected_keeping(s) ==
    LET selected_model_name == s.model_combobox.value
        init == _initialize_model(
                    update_conversation_history(s, "System: AI Model selected", "system"),
                    Given(selected_model_name))
    IN  IF init.ret
        THEN IF init.self.spec_sheet_1_path # NoneV /\ init.self.spec_sheet_2_path # NoneV
             THEN check_and_process_spec_sheets(update_conversation_history(init.self,
                      "System: Starting analysis...", "system"))
             ELSE update_conversation_history(init.self,
                      "System: Model initialized. Load both spec sheets.", "system")
        ELSE update_conversation_history(init.self, "System: Failed to init. Check logs.",
                                         "error")

\* The combobox holds the name the user picked.
_on_model_selected(s) ==
    LET selected_model_name == s.model_combobox.value
        is_diff_model == s.model # NoneV /\ s.model # selected_model_name
        is_first_select_with_history ==
            /\ s.model = NoneV
            /\ \E i \in 1..Len(s.conversation_log) :
                   ~(s.conversation_log[i].role = "system"
                     /\ startswith_Welcome(s.conversation_log[i].content))
        s1 == IF is_diff_model \/ is_first_select_with_history
              THEN update_conversation_history(
                       clear_all(update_conversation_history(s,
                                     "System: Changing model. Clearing context.", "system"),
                                 FALSE, TRUE, TRUE),
                       "System: AI Model selected", "system")
              ELSE update_conversation_history(s, "System: AI Model selected", "system")
        init == _initialize_model(s1, Given(selected_model_name))
    IN  IF selected_model_name = placeholder_text
        THEN _update_ui_for_ai_status(
                 update_conversation_history(s, "System: Select a valid AI model.", "system"),
                 Omitted, Given(FALSE))
        ELSE IF init.ret
        THEN IF init.self.spec_sheet_1_path # NoneV /\ init.self.spec_sheet_2_path # NoneV
             THEN check_and_process_spec_sheets(update_conversation_history(init.self,
                      "System: Starting analysis...", "system"))
             ELSE update_conversation_history(init.self,
                      "System: Model initialized. Load both spec sheets.", "system")
        ELSE update_conversation_history(init.self, "System: Failed to init. Check logs.",
                                         "error")

-----------------------------------------------------------------------------
(* The detailed comparison *)

\* The rows of the first markdown table of a response text, as the table view
\* shows them: the first four cells of each.
first_table_rows(text) ==
    IF text.kind = "text" /\ text.body = "table"
    THEN << << "Parameter", "Value 1", "Value 2", "" >> >>
    ELSE << >>

_populate_comparison_treeview(s, ai_response_text) ==
    LET s1 == [s EXCEPT !.comparison_treeview = << >>]
        rows == first_table_rows(ai_response_text)
    IN  IF rows = << >>
        THEN update_conversation_history(s1,
                 "System: No valid table data parsed for Treeview.", "system")
        ELSE update_conversation_history(
                 [s1 EXCEPT !.comparison_treeview = rows],
                 "System: Detailed comparison table populated.", "system")

\* not (self.spec_sheet_1_text and self.spec_sheet_2_text)
texts_missing(s) == not_text(s.spec_sheet_1_text) \/ not_text(s.spec_sheet_2_text)

\* The finally clause of on_start_detailed_comparison, and the return.
on_start_detailed_comparison_finally(s) ==
    return_to_mainloop(IF s.model # NoneV
                       THEN [s EXCEPT !.start_comparison_button = "normal"]
                       ELSE s)

\* The parameter list stage 2 is given: what is left of the stage-1 text once
\* numbering and separators are stripped; "" when nothing is left.
identified_parameters(text) == IF text.kind = "text" THEN text.body ELSE text.kind

\* Up to generate_content of stage 1.
on_start_detailed_comparison_begin(s) ==
    LET s1 == [update_conversation_history(s,
                   "System: 'Start Detailed Comparison' initiated...", "system")
               EXCEPT !.start_comparison_button = "disabled",
                      !.trace = [@ EXCEPT !.comparison = TRUE]]
        s2 == send_to_ai_begin(
                  update_conversation_history(s1,
                      "System: Stage 1: Fetching relevant parameters...", "system"),
                  FALSE, "generate_content_stage1")
    IN  IF s1.model = NoneV
        THEN on_start_detailed_comparison_finally(update_conversation_history(s1,
                 "System: No AI model initialized. Please select a model.", "error"))
        ELSE IF texts_missing(s1)
        THEN on_start_detailed_comparison_finally(update_conversation_history(s1,
                 "System: Both spec sheets must be loaded and processed.", "error"))
        ELSE s2

\* From the outcome of stage 1 to generate_content of stage 2.
on_start_detailed_comparison_stage_1(s, outcome) ==
    LET r == send_to_ai_end(s, FALSE, outcome)
        parameters_response_text == r.ret
        failed == update_conversation_history(r.self,
                      "System: Stage 1 Failed: Could not fetch relevant parameters from AI.",
                      "error")
        s1 == IF identified_parameters(parameters_response_text) = ""
              THEN update_conversation_history(r.self,
                       "System: Stage 1 Warning: AI did not return any parameters.", "system")
              ELSE update_conversation_history(r.self,
                       "System: AI identified parameters", "system")
        s2 == send_to_ai_begin(
                  update_conversation_history(s1,
                      "System: Stage 2: Fetching detailed differences...", "system"),
                  FALSE, "generate_content_stage2")
    IN  IF r.raised # ""
        THEN propagate(on_start_detailed_comparison_finally(r.self), r.raised)
        ELSE IF falsy(parameters_response_text)
                    \/ startswith_AI_Error_colon(parameters_response_text)
                    \/ contains_empty_no_content(parameters_response_text)
        THEN on_start_detailed_comparison_finally(
                 IF falsy(parameters_response_text)
                 THEN update_conversation_history(failed,
                          "System: Failed to get parameters from AI (no response).", "error")
                 ELSE failed)
        ELSE IF s2.pc = "generate_content_stage2"
        THEN s2
        ELSE on_start_detailed_comparison_finally(update_conversation_history(s2,
                 "System: Stage 2 Failed: (no response).", "error"))

\* From the outcome of stage 2 to the return.
on_start_detailed_comparison_stage_2(s, outcome) ==
    LET r == send_to_ai_end(s, FALSE, outcome)
        detailed_comparison_response_text == r.ret
        s1 == [r.self EXCEPT !.trace = [@ EXCEPT
                                 !.detailed = detailed_comparison_response_text]]
    IN  IF r.raised # ""
        THEN propagate(on_start_detailed_comparison_finally(r.self), r.raised)
        ELSE IF ~falsy(detailed_comparison_response_text)
                    /\ ~startswith_AI_Error_colon(detailed_comparison_response_text)
        THEN on_start_detailed_comparison_finally(
                 _populate_comparison_treeview(s1, detailed_comparison_response_text))
        ELSE IF falsy(detailed_comparison_response_text)
        THEN on_start_detailed_comparison_finally(update_conversation_history(s1,
                 "System: Stage 2 Failed: (no response).", "error"))
        ELSE on_start_detailed_comparison_finally(s1)

-----------------------------------------------------------------------------
(* The chat *)

\* dialog: the file dialog cancelled, or a file picked that Image.open reads.
ImageDialogOutcomes == {"cancel", "ok"}

on_upload_image(s, dialog) ==
    IF dialog = "cancel" THEN s
    ELSE update_conversation_history(
             [s EXCEPT !.pending_user_image_path = "image.png"],
             "System: Image attached. It will be sent with your next message.", "system")

\* Up to chat_session.send_message.  user_text: the entry's text, stripped;
\* start_chat_ok: whether model.start_chat returns (it makes no remote call).
send_user_query_begin(s, user_text, start_chat_ok) ==
    LET init == IF s.model = NoneV \/ ~s.api_key_configured
                THEN _initialize_model(s, Omitted)
                ELSE [self |-> s, ret |-> TRUE]
        s0 == init.self
        s1 == IF s0.pending_user_image_path # NoneV
              THEN [update_conversation_history(s0, "User: [Image]", "user")
                    EXCEPT !.frame = [@ EXCEPT !.image_sent_this_turn = TRUE]]
              ELSE update_conversation_history(s0, "User: text", "user")
        s2 == [s1 EXCEPT !.send_button = "disabled", !.user_input_entry = "disabled"]
        s3 == IF s2.chat_session = NoneV
              THEN [update_conversation_history(s2, "System: Starting new chat...", "system")
                    EXCEPT !.chat_session = "ChatSession"]
              ELSE s2
        s4 == update_conversation_history(
                  _add_to_ai_history(s3, "user", "User: text"),
                  "System: Sending to AI...", "system")
    IN  IF ~init.ret
        THEN s0
        ELSE IF s0.model = NoneV
        THEN update_conversation_history(s0, "System: AI Model N/A.", "error")
        ELSE IF s0.pending_user_image_path = NoneV /\ user_text = ""
        THEN update_conversation_history(s0, "System: Cannot send empty message.", "system")
        ELSE IF s2.chat_session = NoneV /\ ~start_chat_ok
        THEN _update_ui_for_ai_status(_update_ui_for_ai_status(
                 update_conversation_history(
                     update_conversation_history(
                         [s2 EXCEPT !.trace = [@ EXCEPT
                              !.failed = TRUE,
                              !.failed_from = Len(s2.conversation_history)]],
                         "System: Starting new chat...", "system"),
                     "System: Error starting chat", "error"),
                 Omitted, Omitted), Omitted, Omitted)
        ELSE with_request_options(issue(s4, "send_message"), Omitted)

\* From the outcome of send_message to the return: the object and the
\* exception that leaves the method ("" for none).
send_user_query_end(s0, outcome) ==
    LET s == deliver(s0, outcome)
        s1 == update_conversation_history(
                  _add_to_ai_history(s, "model", outcome.body), outcome.body, "ai")
        s2 == IF s1.frame.image_sent_this_turn
              THEN [s1 EXCEPT !.pending_user_image_path = NoneV]
              ELSE s1
        e == outcome.exc
        x1 == [update_conversation_history(s, "System: Error with AI", "error")
               EXCEPT !.api_key_configured = IF is_credential_error(e) THEN FALSE ELSE @]
        x2 == IF is_model_resetting_error(e)
              THEN [update_conversation_history(x1,
                        "System: Resetting model due to error.", "system")
                    EXCEPT !.model = NoneV, !.chat_session = NoneV, !.ai_history = << >>,
                           !.trace = [@ EXCEPT !.ai_history_cleared = TRUE]]
              ELSE x1
    IN  IF outcome.kind = "text"
        THEN [self |-> _update_ui_for_ai_status(s2, Omitted, Omitted), raised |-> ""]
        ELSE IF except_Exception(e)
        THEN [self |-> _update_ui_for_ai_status(x2, Omitted, Omitted), raised |-> ""]
        ELSE [self |-> _update_ui_for_ai_status(s, Omitted, Omitted), raised |-> e]

-----------------------------------------------------------------------------
(* Formatting of an entry.  A text is the sequence of its lines, each one of *)
(*   blank  only white space                                                *)
(*   text   words, no colon and no pipe                                      *)
(*   echo   words that repeat a cell of the table before them                *)
(*   kv     key: value, one value                                            *)
(*   pipe   | cell | cell |                                                  *)
(*   sep    |------|------|                                                  *)
(*   heading  **Title** or ## Title, where Title is a column header of the   *)
(*          table before it and an echo repeats a cell of that column        *)
(* and all pipe and sep lines have the same number of cells.  A heading      *)
(* whose title is not in the table is a text line: the code treats the two   *)
(* alike.                                                                    *)

LineKinds == {"blank", "text", "echo", "kv", "pipe", "sep", "heading"}

NoSegment == [type |-> "None", rows |-> 0]

\* The indices of the lines that are not blank (processed_lines_info).
RECURSIVE processed_lines(_, _)
processed_lines(lines, k) ==
    IF k > Len(lines) THEN << >>
    ELSE IF lines[k] = "blank" THEN processed_lines(lines, k + 1)
    ELSE << k >> \o processed_lines(lines, k + 1)

\* The number of lines from P[k] on, among those not blank, that are table rows.
RECURSIVE table_rows(_, _, _)
table_rows(lines, P, k) ==
    IF k > Len(P) \/ lines[P[k]] \notin {"pipe", "sep"} THEN 0
    ELSE 1 + table_rows(lines, P, k + 1)

\* The first pipe table anywhere in the text and the number of lines up to its
\* last line; the last line is counted from 1 here, as original_index + 1.
\* first is the header line, counted the same way.
_parse_markdown_table(lines) ==
    LET P == processed_lines(lines, 1)
        starts == {j \in 1..(Len(P) - 1) :
                      lines[P[j]] \in {"pipe", "sep"} /\ lines[P[j + 1]] = "sep"}
        header == CHOOSE j \in starts : \A k \in starts : j <= k
        n == table_rows(lines, P, header + 2)
    IN  IF starts = {}
        THEN [table |-> NoSegment, consumed |-> 0, first |-> 0]
        ELSE [table |-> [type |-> "table", rows |-> n], consumed |-> P[header + 1 + n],
              first |-> P[header]]

\* The key: value lines that follow one another from the first one on.
RECURSIVE implicit_rows(_, _, _)
implicit_rows(text_lines, k, started) ==
    IF k > Len(text_lines) THEN 0
    ELSE IF text_lines[k] = "kv" THEN 1 + implicit_rows(text_lines, k + 1, TRUE)
    ELSE IF started THEN 0
    ELSE implicit_rows(text_lines, k + 1, FALSE)

MIN_IMPLICIT_TABLE_ROWS == 2

_parse_implicit_table(text_lines) ==
    IF Len(text_lines) < MIN_IMPLICIT_TABLE_ROWS
           \/ implicit_rows(text_lines, 1, FALSE) < MIN_IMPLICIT_TABLE_ROWS
    THEN NoSegment
    ELSE [type |-> "table", rows |-> implicit_rows(text_lines, 1, FALSE)]

MAX_LINES_FOR_REDUNDANCY_CHECK == 7

not_blank(line) == line # "blank"

\* A variant that checks a block of any length.
_is_text_segment_redundant_with_table_any_length(text_lines, table_data) ==
    LET actual_text_lines == SelectSeq(text_lines, not_blank)
        is_echo(line) == line = "echo"
    IN  /\ actual_text_lines # << >>
        /\ table_data.rows > 0
        /\ 4 * Len(SelectSeq(actual_text_lines, is_echo)) >= 3 * Len(actual_text_lines)

\* At least three quarters (0.75) of the lines repeat a cell of the table; under
\* a heading that names a column, at least 0.51 of the first seven lines after
\* the heading repeat a cell of that column.
_is_text_segment_redundant_with_table(text_lines, table_data) ==
    LET actual_text_lines == SelectSeq(text_lines, not_blank)
        is_section_header_matched == actual_text_lines[1] = "heading"
        lines_to_check_for_content == IF is_section_header_matched
                                      THEN Tail(actual_text_lines)
                                      ELSE actual_text_lines
        content_lines_for_final_check ==
            SubSeq(lines_to_check_for_content, 1,
                   IF Len(lines_to_check_for_content) > MAX_LINES_FOR_REDUNDANCY_CHECK
                   THEN MAX_LINES_FOR_REDUNDANCY_CHECK
                   ELSE Len(lines_to_check_for_content))
        redundant_lines_count ==
            Cardinality({k \in 1..Len(content_lines_for_final_check) :
                            content_lines_for_final_check[k] = "echo"})
    IN  IF actual_text_lines = << >> THEN FALSE
        ELSE IF ~is_section_header_matched
                    /\ Len(actual_text_lines) > MAX_LINES_FOR_REDUNDANCY_CHECK
        THEN FALSE
        ELSE IF is_section_header_matched /\ lines_to_check_for_content = << >>
        THEN TRUE
        ELSE IF table_data.rows = 0 THEN FALSE
        ELSE IF is_section_header_matched
        THEN 100 * redundant_lines_count >= 51 * Len(content_lines_for_final_check)
        ELSE 4 * redundant_lines_count >= 3 * Len(content_lines_for_final_check)

_finalize_text_block(block_lines, last_table_segment_for_redundancy_check) ==
    IF \A k \in 1..Len(block_lines) : block_lines[k] = "blank"
    THEN NoSegment
    ELSE IF _parse_implicit_table(block_lines) # NoSegment
    THEN _parse_implicit_table(block_lines)
    ELSE IF last_table_segment_for_redundancy_check # NoSegment
                /\ _is_text_segment_redundant_with_table(
                       block_lines, last_table_segment_for_redundancy_check)
    THEN NoSegment
    ELSE [type |-> "text", rows |-> 0]

\* What the formatter does with the block of lines that ends before line i:
\* the segment it appends, or "suppressed" where it appends none.  Beside the
\* segment's type, rows and content (for a block left out, its lines), a step
\* records where in the response the block starts (at) and how many lines of
\* the response the segment holds (lines: those of a text, the key: value
\* lines of an implicit table).
finalized(processed_segment, block_lines, i) ==
    [type |-> IF processed_segment = NoSegment THEN "suppressed"
              ELSE processed_segment.type,
     rows |-> processed_segment.rows,
     content |-> IF processed_segment.type = "table" THEN << >> ELSE block_lines,
     at |-> i - Len(block_lines),
     lines |-> IF processed_segment.type = "table" THEN processed_segment.rows
               ELSE Len(block_lines)]

\* The step that appends a pipe table: its lines are the header, the separator
\* and the rows.
appended(pipe_table_data, at) ==
    [type |-> "table", rows |-> pipe_table_data.rows, content |-> << >>,
     at |-> at, lines |-> pipe_table_data.rows + 2]

\* The while loop of _format_ai_response from line i on, and what follows it.
RECURSIVE format_from(_, _, _, _, _)
format_from(all_lines, i, segments, current_text_block_lines, last_table) ==
    LET parsed == _parse_markdown_table(SubSeq(all_lines, i, Len(all_lines)))
        processed_segment == _finalize_text_block(current_text_block_lines, last_table)
        flushed == IF current_text_block_lines # << >>
                   THEN Append(segments,
                               finalized(processed_segment, current_text_block_lines, i))
                   ELSE segments
        last_flushed == IF current_text_block_lines # << >>
                            /\ processed_segment.type = "table"
                        THEN processed_segment
                        ELSE last_table
    IN  IF i > Len(all_lines)
        THEN flushed
        ELSE IF parsed.table # NoSegment
        THEN format_from(all_lines, i + parsed.consumed,
                         Append(flushed, appended(parsed.table, i - 1 + parsed.first)),
                         << >>, parsed.table)
        ELSE IF all_lines[i] = "blank"
        THEN format_from(all_lines, i + 1, flushed, << >>, last_flushed)
        ELSE format_from(all_lines, i + 1, segments,
                         Append(current_text_block_lines, all_lines[i]), last_table)

\* The steps of the formatter on a response, in the order it takes them.
format_steps(text_response) == format_from(text_response, 1, << >>, << >>, NoSegment)

is_segment(step) == step.type # "suppressed"

\* The segments returned: the steps that appended one.
_format_ai_response(text_response) == SelectSeq(format_steps(text_response), is_segment)

\* The lines of the sample contents.  An AI entry is "AI (name): " followed by
\* the response text, so its first line starts with words; every other
\* message of the program is one line with a colon.
splitlines(content) ==
    IF content = "labels_yes" THEN << "kv", "kv", "kv", "kv", "kv" >>
    ELSE IF content = "table" THEN << "kv", "blank", "pipe", "sep", "pipe", "blank", "text" >>
    ELSE IF content = "json_array" THEN << "kv" >>
    ELSE IF content = "labels_yes_no" THEN << "kv", "kv" >>
    ELSE IF content = "" THEN << >>
    ELSE << "kv" >>

\* not entry_content.strip()
strip_is_empty(content) == \A k \in 1..Len(splitlines(content)) : splitlines(content)[k] = "blank"

-----------------------------------------------------------------------------
(* The export.  A document is the sequence of its blocks; a block names the  *)
(* log entry it was written for (0 for the front matter).                    *)

\* A variant that writes tables only.
segment_blocks_tables_only(entry, segment, is_last) ==
    IF segment.type = "table" /\ segment.rows > 0
    THEN << [entry |-> entry, kind |-> "table"] >>
    ELSE << >>

\* The blocks of one segment; a segment that is not the last is followed by an
\* empty paragraph.
segment_blocks(entry, segment, is_last) ==
    LET block == IF segment.type = "table" /\ segment.rows > 0
                 THEN << [entry |-> entry, kind |-> "table"] >>
                 ELSE << [entry |-> entry, kind |-> "paragraph"] >>
    IN  IF is_last THEN block ELSE Append(block, [entry |-> entry, kind |-> "empty"])

RECURSIVE segments_blocks(_, _, _)
segments_blocks(entry, segments, segment_idx) ==
    IF segment_idx > Len(segments) THEN << >>
    ELSE segment_blocks(entry, segments[segment_idx], segment_idx = Len(segments))
             \o segments_blocks(entry, segments, segment_idx + 1)

\* The body of the loop over conversation_log.
entry_blocks(entry, entry_content) ==
    LET segments == _format_ai_response(splitlines(entry_content))
    IN  IF strip_is_empty(entry_content) THEN << >>
        ELSE IF segments # << >> THEN segments_blocks(entry, segments, 1)
        ELSE << [entry |-> entry, kind |-> "paragraph"] >>

RECURSIVE log_blocks(_, _)
log_blocks(log, entry) ==
    IF entry > Len(log) THEN << >>
    ELSE entry_blocks(entry, log[entry].content) \o log_blocks(log, entry + 1)

\* The document download_history builds.
document(s) ==
    << [entry |-> 0, kind |-> "heading"] >>
        \o (IF s.spec_sheet_1_path # NoneV
            THEN << [entry |-> 0, kind |-> "paragraph"] >> ELSE << >>)
        \o (IF s.spec_sheet_2_path # NoneV
            THEN << [entry |-> 0, kind |-> "paragraph"] >> ELSE << >>)
        \o << [entry |-> 0, kind |-> "paragraph"], [entry |-> 0, kind |-> "paragraph"] >>
        \o log_blocks(s.conversation_log, 1)

\* dialog: what the save dialog and doc.save do:
\*   cancel        the user cancels the dialog
\*   saved         the file is written
\*   save_error    building or saving the document raises
SaveOutcomes == {"cancel", "saved", "save_error"}

\* A variant that takes every outcome for a failure and disables the chat.
download_history_disabling(s0, dialog) ==
    LET s == update_conversation_history(s0, "System: Download cancelled by user.", "system")
    IN  [s EXCEPT !.send_button = "disabled", !.user_input_entry = "disabled",
                  !.trace = [@ EXCEPT !.log_before = s0.conversation_log,
                                      !.download = dialog]]

download_history(s0, dialog) ==
    LET s == [s0 EXCEPT !.trace = [@ EXCEPT !.log_before = s0.conversation_log]]
        wrote(s1, what) == [s1 EXCEPT !.trace = [@ EXCEPT !.download = what]]
    IN  IF s.conversation_log = << >>
        THEN wrote(update_conversation_history(s,
                       "System: History empty. Nothing to download.", "system"), "empty")
        ELSE IF dialog = "cancel"
        THEN wrote(update_conversation_history(s,
                       "System: Download cancelled by user.", "system"), dialog)
        ELSE IF dialog = "saved"
        THEN wrote([update_conversation_history(s,
                        "System: Conversation history downloaded", "system")
                    EXCEPT !.trace = [@ EXCEPT !.saved_doc = document(s)]], dialog)
        ELSE wrote(update_conversation_history(s,
                       "System: Error during history download", "error"), dialog)

-----------------------------------------------------------------------------
(* The main loop *)

\* Handler runs that may write to a transcript before it is emptied again.
\* With 1 TLC finds 106,416 states in under a minute; with 2 it finds
\* 1,312,658 in twelve minutes, and the properties that hold with 1 hold
\* there too.
MaxEvents == 1

IsPrefix(a, b) == Len(a) <= Len(b) /\ SubSeq(b, 1, Len(a)) = a

\* The handler runs that wrote to the transcript s1.conversation_log, when the
\* run that led from s0 to s1 is counted.
events_after(s0, s1) ==
    IF ~IsPrefix(s0.conversation_log, s1.conversation_log) THEN 0
    ELSE IF s1.conversation_log = s0.conversation_log THEN s0.trace.events
    ELSE s0.trace.events + 1

\* A variant that takes UI events while a handler waits for a call.
mainloop_dispatches_always == TRUE

\* root.mainloop() takes the next UI event when no handler is running.
mainloop_dispatches == pc = "idle"

\* A fresh run: nothing called, nothing failed.
Fresh(s) == [s EXCEPT !.trace = [NoTrace EXCEPT !.events = s.trace.events,
                                                !.reset = s.trace.reset],
                      !.frame = NoFrame]

\* The main loop dispatches an event to its handler, whose first step leads from
\* the object s0 to s1.
Begin(s0, s1) ==
    /\ mainloop_dispatches
    /\ events_after(s0, s1) <= MaxEvents
    /\ Commit([s1 EXCEPT !.trace = [@ EXCEPT !.events = events_after(s0, s1),
                                             !.overlap = s0.pc # "idle"]])

LoadSpecSheet1 ==
    \E filepath \in Files \cup {""} :
        Begin(Self, load_spec_sheet_1(Fresh(Self), filepath))

LoadSpecSheet2 ==
    \E filepath \in Files \cup {""} :
        Begin(Self, load_spec_sheet_2(Fresh(Self), filepath))

\* The Clear All button.
ClearAll ==
    \E rmtree_ok \in BOOLEAN, makedirs_ok \in BOOLEAN :
        Begin(Self, clear_all(Fresh(Self), TRUE, rmtree_ok, makedirs_ok))

\* <<ComboboxSelected>>: the user picks a name from the list of an enabled combobox.
OnModelSelected ==
    /\ ~model_combobox.disabled
    /\ \E name \in model_options_list :
           Begin(Self, _on_model_selected(
                           [Fresh([Self EXCEPT !.model_combobox = ttk_set(@, name)])
                            EXCEPT !.trace = [@ EXCEPT !.selected = TRUE,
                                                       !.previous_model_name = model,
                                                       !.reset = FALSE]]))

ExtractSheet1 ==
    /\ pc = "extract_1"
    /\ \E text_outcome \in TextOutcomes :
           Commit(process_spec_sheets_sheet_1(Self, text_outcome))

ExtractSheet2 ==
    /\ pc = "extract_2"
    /\ \E text_outcome \in TextOutcomes :
           Commit(process_spec_sheets_sheet_2(Self, text_outcome))

\* generate_content of the initial analysis returns or raises; nothing follows
\* send_to_ai in process_spec_sheets and its callers.
InitialAnalysisResponse ==
    /\ pc = "generate_content_initial"
    /\ \E outcome \in GenerateOutcomes :
           LET r == send_to_ai_end(Self, TRUE, outcome)
           IN  Commit(IF r.raised # "" THEN propagate(r.self, r.raised)
                      ELSE return_to_mainloop(r.self))

\* The Start Detailed Comparison button, when enabled.
OnStartDetailedComparison ==
    /\ start_comparison_button = "normal"
    /\ Begin(Self, on_start_detailed_comparison_begin(Fresh(Self)))

Stage1Response ==
    /\ pc = "generate_content_stage1"
    /\ \E outcome \in GenerateOutcomes :
           Commit(on_start_detailed_comparison_stage_1(Self, outcome))

Stage2Response ==
    /\ pc = "generate_content_stage2"
    /\ \E outcome \in GenerateOutcomes :
           Commit(on_start_detailed_comparison_stage_2(Self, outcome))

\* The Attach Image button.
OnUploadImage ==
    \E dialog \in ImageDialogOutcomes : Begin(Self, on_upload_image(Fresh(Self), dialog))

\* The Send button, when enabled.
SendUserQuery ==
    /\ send_button = "normal"
    /\ \E user_text \in {"", "text"}, start_chat_ok \in BOOLEAN :
           Begin(Self, send_user_query_begin(Fresh(Self), user_text, start_chat_ok))

ChatResponse ==
    /\ pc = "send_message"
    /\ \E outcome \in ChatOutcomes :
           LET r == send_user_query_end(Self, outcome)
           IN  Commit(IF r.raised # "" THEN propagate(r.self, r.raised)
                      ELSE return_to_mainloop(r.self))

\* The Download History button.
DownloadHistory ==
    \E dialog \in SaveOutcomes : Begin(Self, download_history(Fresh(Self), dialog))

Next ==
    \/ DownloadHistory
    \/ OnStartDetailedComparison
    \/ Stage1Response
    \/ Stage2Response
    \/ OnUploadImage
    \/ SendUserQuery
    \/ ChatResponse
    \/ LoadSpecSheet1
    \/ LoadSpecSheet2
    \/ ClearAll
    \/ OnModelSelected
    \/ ExtractSheet1
    \/ ExtractSheet2
    \/ InitialAnalysisResponse

Spec == Init /\ [][Next]_vars

-----------------------------------------------------------------------------
(* The program after a detailed comparison *)

\* The object once both files are loaded, a model is selected, the initial
\* analysis has found the components similar and a detailed comparison has
\* filled the table view: the handlers applied one after the other to the
\* object at start-up.  The count of runs starts anew.
Compared ==
    LET text(body) == [kind |-> "text", exc |-> "", body |-> body]
        s0 == __init__(TRUE, "empty", TRUE)
        s1 == load_spec_sheet_2(Fresh(load_spec_sheet_1(Fresh(s0), "a.pdf")), "b.pdf")
        s2 == _on_model_selected(
                  [Fresh([s1 EXCEPT !.model_combobox =
                                        ttk_set(@, "models/gemini-1.5-flash")])
                   EXCEPT !.trace = [@ EXCEPT !.selected = TRUE,
                                              !.previous_model_name = s1.model,
                                              !.reset = FALSE]])
        s3 == process_spec_sheets_sheet_2(process_spec_sheets_sheet_1(s2, "ok"), "ok")
        s4 == return_to_mainloop(send_to_ai_end(s3, TRUE, text("labels_yes")).self)
        s5 == on_start_detailed_comparison_stage_1(
                  on_start_detailed_comparison_begin(Fresh(s4)), text("labels_yes"))
        s6 == on_start_detailed_comparison_stage_2(s5, text("table"))
    IN  [s6 EXCEPT !.trace = [@ EXCEPT !.events = 0]]

InitCompared == Constructed(Compared)

SpecCompared == InitCompared /\ [][Next]_vars

-----------------------------------------------------------------------------
(* The formatter on its own *)

\* The longest response of which every make-up of lines is taken.
MaxLines == 5

\* The lines of a block that is too long for the redundancy check.
LongBlockLines == MAX_LINES_FOR_REDUNDANCY_CHECK + 1

\* The responses given to _format_ai_response: every sequence of up to MaxLines
\* lines, and the blocks of LongBlockLines lines of text: alone, after a table
\* of one row, and after such a table and a line that repeats it.
Responses ==
    UNION {[1..n -> LineKinds] : n \in 0..MaxLines}
        \cup {prefix \o block :
                 prefix \in {<< >>, << "pipe", "sep", "pipe" >>,
                             << "pipe", "sep", "pipe", "echo", "blank" >>},
                 block \in [1..LongBlockLines -> {"heading", "text", "echo"}]}

\* update_conversation_history and download_history call _format_ai_response
\* with the text of an entry; the function reads nothing of the object.
FormatInit ==
    \E text_response \in Responses :
        Constructed([__init__(TRUE, "empty", TRUE)
                     EXCEPT !.pc = "_format_ai_response",
                            !.frame = [@ EXCEPT !.text_response = text_response]])

FormatAiResponse ==
    /\ pc = "_format_ai_response"
    /\ Commit([Self EXCEPT !.pc = "formatted",
                           !.frame = [@ EXCEPT !.steps = format_steps(frame.text_response)]])

FormatNext == FormatAiResponse

SpecFormat == FormatInit /\ [][FormatNext]_vars

-----------------------------------------------------------------------------
(* Properties *)

\* The transcript lines that describe the failure of a remote model call.
FailureLines ==
    {"System: Error with AI", "System: AI Error - Prompt was blocked.",
     "System: Error starting chat"}

\* The transcript line that names the missing credential.
CredentialLine == "System: Cannot init model - API key not set."

\* C1: every failure of a remote model call (an exception of generate_content,
\* start_chat or send_message, or a response whose prompt was blocked) is
\* caught in the handler and followed by at least one error line of the
\* on-screen transcript that describes it; no exception of a remote call or of
\* the response parser leaves send_to_ai or send_user_query.
C1_RemoteFailuresCaughtAndSurfaced ==
    /\ trace.uncaught \notin RemoteExceptions \cup {"AttributeError"}
    /\ trace.failed =>
           \E i \in (trace.failed_from + 1)..Len(conversation_history) :
               /\ conversation_history[i].role = "error"
               /\ conversation_history[i].content \in FailureLines

\* A remote call was issued, failed, and its handler has returned.
C1_Witness == trace.failed /\ trace.calls > 0 /\ pc = "idle"

\* C2 (as amended): while GOOGLE_API_KEY is absent, api_key_configured is
\* False, no model is initialized, no extraction or remote call is started,
\* and a model selection puts the line naming the missing credential on the
\* on-screen transcript.
C2_MissingCredential ==
    ~env_api_key =>
        /\ ~api_key_configured
        /\ model = NoneV
        /\ pc = "idle" /\ trace.calls = 0
        /\ trace.selected =>
               \E i \in 1..Len(conversation_history) :
                   conversation_history[i] = [role |-> "error", content |-> CredentialLine]

\* The key is absent and the user has selected a model.
C2_Witness == ~env_api_key /\ trace.selected /\ model = NoneV

\* C2 as stated: whenever GOOGLE_API_KEY is absent the transcript holds a line
\* naming the missing credential.
C2_AsStated ==
    ~env_api_key =>
        /\ \E i \in 1..Len(conversation_history) :
               conversation_history[i].content = CredentialLine
        /\ ~api_key_configured
        /\ model = NoneV
        /\ pc = "idle" /\ trace.calls = 0

\* C3 as stated: once a remote call of a handler run has failed, the run
\* issues no further remote call.
C3_NoCallAfterFailure == ~trace.after

\* C4: no handler begins while a remote call or an extraction of another
\* handler is outstanding.
C4_OneOperationInFlight == ~trace.overlap

\* A remote call is outstanding.
C4_Witness == pc = "generate_content_stage2" /\ trace.calls = 2

\* C5: from a remote-call error of a model-resetting kind in send_to_ai or
\* send_user_query until the next model selection, model and chat_session
\* are None, ai_history is empty, and the Send button and the message entry
\* are disabled.
C5_ModelResetUntilSelection ==
    trace.reset =>
        /\ model = NoneV
        /\ chat_session = NoneV
        /\ ai_history = << >>
        /\ send_button = "disabled"
        /\ user_input_entry = "disabled"

\* A later handler ran after the error, and no model was selected since.
C5_Witness == trace.reset /\ ~trace.failed /\ trace.download = "saved"

C7_ExportCoversLog ==
    trace.download # "" =>
        /\ Len(conversation_log) = Len(trace.log_before) + 1
        /\ SubSeq(conversation_log, 1, Len(trace.log_before)) = trace.log_before
        /\ trace.download = "saved" =>
               /\ \A i \in 1..Len(trace.log_before) :
                      ~strip_is_empty(trace.log_before[i].content) =>
                          \E k \in 1..Len(trace.saved_doc) :
                              /\ trace.saved_doc[k].entry = i
                              /\ trace.saved_doc[k].kind \in {"paragraph", "table"}
               /\ \A j, k \in 1..Len(trace.saved_doc) :
                      j < k => trace.saved_doc[j].entry <= trace.saved_doc[k].entry

\* A document was saved that holds a table and a paragraph of log entries.
C7_Witness ==
    /\ trace.download = "saved"
    /\ \E j, k \in 1..Len(trace.saved_doc) :
           /\ trace.saved_doc[j].kind = "table"
           /\ trace.saved_doc[k].kind = "paragraph" /\ trace.saved_doc[k].entry > 0

\* C8: the remote call of the initial analysis is issued only after the same
\* run has extracted non-empty text from both selected PDFs; when a text
\* extraction fails or yields no text, the run logs the halt as its last line
\* and issues no remote call.
C8_CallOnlyAfterBothTexts ==
    /\ (trace.selected /\ trace.calls > 0) =>
           /\ trace.texts = {1, 2} /\ ~trace.text_failed
           /\ spec_sheet_1_text = TextOf(spec_sheet_1_path) /\ spec_sheet_1_text # ""
           /\ spec_sheet_2_text = TextOf(spec_sheet_2_path) /\ spec_sheet_2_text # ""
    /\ trace.text_failed =>
           /\ pc = "idle" /\ trace.calls = 0
           /\ conversation_log[Len(conversation_log)] =
                  [role |-> "error", content |-> "System: Halting. Text extract fail."]

\* The text of sheet 1 was extracted and that of sheet 2 was not.
C8_Witness == trace.text_failed /\ trace.texts = {1}

\* C9 as stated: the model selector is enabled if and only if both spec sheet
\* paths are set.
C9_SelectorEnabledIffBothFiles ==
    ~model_combobox.disabled <=> (spec_sheet_1_path # NoneV /\ spec_sheet_2_path # NoneV)

\* C10: when no handler is executing, the Send button and the message entry
\* are enabled if and only if the API key is configured and a model is set.
C10_SendEnabledIffReady ==
    pc = "idle" =>
        /\ send_button = "normal" <=> (api_key_configured /\ model # NoneV)
        /\ user_input_entry = "normal" <=> (api_key_configured /\ model # NoneV)

\* A chat call has returned and the Send button is enabled again.
C10_Witness == pc = "idle" /\ send_button = "normal" /\ trace.calls > 0 /\ ~trace.selected

\* The line download_history writes when the save dialog is cancelled.
CancelLine == [role |-> "system", content |-> "System: Download cancelled by user."]

\* C11: a step of download_history whose save dialog is cancelled saves no
\* document, appends the one 'Download cancelled' line to the log and to the
\* on-screen transcript, and leaves the model, the chat session, the AI
\* history, the loaded files and their texts, the pending image, the
\* comparison table and the state of every button and of the selector as
\* they were.
C11_CancelChangesOnlyTranscript ==
    [][trace'.download = "cancel" =>
           /\ trace'.saved_doc = << >>
           /\ conversation_log' = Append(conversation_log, CancelLine)
           /\ conversation_history' = Append(conversation_history, CancelLine)
           /\ UNCHANGED << model, chat_session, ai_history, api_key_configured,
                           spec_sheet_1_path, spec_sheet_1_text, spec_sheet_1_image_paths,
                           spec_sheet_2_path, spec_sheet_2_text, spec_sheet_2_image_paths,
                           mfg_pn_var_1, mfg_pn_var_2, pending_user_image_path,
                           comparison_treeview, send_button, user_input_entry,
                           start_comparison_button, model_combobox, temp_image_dir, pc >>]_vars

\* The dialog was cancelled with a model set, both texts extracted and the
\* Send and Start Detailed Comparison buttons enabled.
C11_Witness ==
    /\ trace.download = "cancel"
    /\ model # NoneV /\ ai_history # << >>
    /\ send_button = "normal" /\ start_comparison_button = "normal"

\* C12 as stated: after Clear All (the file system letting the directory be
\* recreated) both paths and texts are None, the image lists and the MFG P/N
\* fields are empty, model and chat_session are None, ai_history is empty, no
\* image is pending, the comparison table is empty, the selector, the Send
\* button, the message entry and the Start Detailed Comparison button are
\* disabled, and the transcript holds exactly one welcome line.
C12_ClearAllRestoresStartUp ==
    (trace.cleared = "files" /\ ~trace.fs_failed) =>
        /\ spec_sheet_1_path = NoneV /\ spec_sheet_1_text = NoneV
        /\ spec_sheet_2_path = NoneV /\ spec_sheet_2_text = NoneV
        /\ spec_sheet_1_image_paths = << >> /\ spec_sheet_2_image_paths = << >>
        /\ mfg_pn_var_1 = "" /\ mfg_pn_var_2 = ""
        /\ model = NoneV /\ chat_session = NoneV /\ ai_history = << >>
        /\ pending_user_image_path = NoneV
        /\ comparison_treeview = << >>
        /\ send_button = "disabled" /\ user_input_entry = "disabled"
        /\ start_comparison_button = "disabled"
        /\ Len(conversation_history) = 1
        /\ startswith_Welcome(conversation_history[1].content)
        /\ conversation_log = conversation_history
        /\ model_combobox.disabled

\* The lines send_to_ai writes for a response that is no parameter list: the
\* call raised, the prompt was blocked, the response was empty.
UnusableLines ==
    {"System: Error with AI", "System: AI Error - Prompt was blocked.",
     "System: AI response empty/no content."}

\* The line on_start_detailed_comparison writes when it gives up after stage 1.
Stage1FailedLine ==
    "System: Stage 1 Failed: Could not fetch relevant parameters from AI."

\* C13 as stated: a step that delivers an unusable stage-1 response (the call
\* raised, the prompt was blocked, or the response was empty) logs 'Stage 1
\* Failed' and returns without issuing the stage-2 request.
C13_Stage1FailureAborts ==
    [][pc = "generate_content_stage1" =>
           LET new == SubSeq(conversation_history', Len(conversation_history) + 1,
                             Len(conversation_history'))
           IN  (\E i \in 1..Len(new) : new[i].content \in UnusableLines) =>
                   /\ pc' = "idle"
                   /\ trace'.calls = 1
                   /\ \E i \in 1..Len(new) : new[i].content = Stage1FailedLine]_vars

\* C14 as stated: when the handler of an initial analysis has returned, the
\* Start Detailed Comparison button is enabled if and only if the response was
\* a text (no exception, no blocked prompt, not empty) and the
\* Functionally_Similar value the parser stored begins with yes.
C14_StartEnabledIffSimilar ==
    (pc = "idle" /\ trace.response # "") =>
        (start_comparison_button = "normal"
             <=> (trace.response = "text" /\ begins_with_yes(trace.parsed)))

\* C15 as stated: in every idle state where the Start Detailed Comparison
\* button is enabled, a model is set and both spec sheet texts are non-empty.
C15_StartEnabledImpliesReady ==
    (pc = "idle" /\ start_comparison_button = "normal") =>
        /\ model # NoneV
        /\ spec_sheet_1_text \notin {NoneV, ""}
        /\ spec_sheet_2_text \notin {NoneV, ""}

\* C16 as stated: in every reachable state each spec sheet text is None, empty,
\* or the text of the file at the path selected for that sheet.
C16_TextsOfSelectedFiles ==
    /\ spec_sheet_1_text \in {NoneV, "", TextOf(spec_sheet_1_path)}
    /\ spec_sheet_2_text \in {NoneV, "", TextOf(spec_sheet_2_path)}

\* The line _on_model_selected writes before it clears the context.
ChangingModelLine == "System: Changing model. Clearing context."

\* C17: the step in which the user selects a model other than the one that is
\* set runs clear_all without clear_files; after it the log holds neither the
\* 'Changing model' line nor any user or AI entry, ai_history is empty,
\* chat_session is None, and both paths and both MFG P/N fields are as they
\* were before the step.
C17_ModelChangeClearsContextKeepsFiles ==
    [][(pc = "idle" /\ trace'.selected /\ model # NoneV /\ model_combobox'.value # model) =>
           /\ trace'.cleared = "context"
           /\ \A i \in 1..Len(conversation_log') :
                  /\ conversation_log'[i].content # ChangingModelLine
                  /\ conversation_log'[i].role \notin {"user", "ai"}
           /\ ai_history' = << >>
           /\ chat_session' = NoneV
           /\ UNCHANGED << spec_sheet_1_path, spec_sheet_2_path,
                           mfg_pn_var_1, mfg_pn_var_2 >>]_vars

\* Another model was selected after an analysis that had filled the MFG P/N
\* fields, and the fields still hold the part numbers.
C17_Witness ==
    /\ trace.selected /\ trace.cleared = "context"
    /\ trace.previous_model_name \notin {"", NoneV, model}
    /\ mfg_pn_var_1 = "PN-1" /\ mfg_pn_var_2 = "PN-2"
    /\ spec_sheet_1_path # NoneV /\ spec_sheet_2_path # NoneV

\* C18 as stated: when a handler that cleared ai_history (by clear_all, by
\* check_and_process_spec_sheets or after a model-resetting error) has
\* returned, chat_session is None.
C18_NoChatSessionAfterHistoryCleared ==
    (pc = "idle" /\ trace.ai_history_cleared) => chat_session = NoneV

\* C19 as stated: while a remote call is outstanding, be it generate_content
\* of send_to_ai or send_message of send_user_query, it was issued with the
\* fixed timeout.
C19_EveryCallHasTimeout ==
    pc \in {"generate_content_initial", "generate_content_stage1",
            "generate_content_stage2", "send_message"}
        => trace.request_options = Given(request_options_timeout)

\* C20 as stated: in every reachable state the conversation log holds exactly
\* the messages shown on the on-screen transcript, in the same order.
C20_LogMatchesTranscript == conversation_log = conversation_history

\* The segments of the call that returned.
returned_segments == SelectSeq(frame.steps, is_segment)

\* The lines of the response that the first k steps hold.
RECURSIVE lines_held(_, _)
lines_held(steps, k) == IF k = 0 THEN 0 ELSE steps[k].lines + lines_held(steps, k - 1)

\* A line that is not blank comes before the header of the first pipe table.
TextBeforeTable ==
    LET first == _parse_markdown_table(frame.text_response).first
    IN  \E k \in 1..(first - 1) : frame.text_response[k] # "blank"

\* C21: _format_ai_response keeps the narrative around a table.  When lines of
\* text come before a pipe table, a segment made of them comes before the table
\* segment; the segments are in the order of the response; and every line that
\* is not blank is held by a segment or by a block left out as redundant.
C21_NarrativeAroundTableKept ==
    pc = "formatted" =>
        /\ TextBeforeTable =>
               /\ returned_segments # << >>
               /\ returned_segments[1].at < _parse_markdown_table(frame.text_response).first
        /\ \A j, k \in 1..Len(returned_segments) :
               j < k => returned_segments[j].at < returned_segments[k].at
        /\ lines_held(frame.steps, Len(frame.steps))
               = Len(SelectSeq(frame.text_response, not_blank))

\* The lines of a block that repeat a cell of the table.
echoes(block_lines) ==
    Cardinality({k \in 1..Len(block_lines) : block_lines[k] = "echo"})

\* C22: text is left out only as a repetition of a table that comes before it
\* in the same response.  _format_ai_response leaves out no block before it
\* has appended a table segment in that call, and it leaves out no block of
\* more than 7 lines unless the block starts with a heading.
C22_SuppressedOnlyAfterTable ==
    pc = "formatted" =>
        \A k \in 1..Len(frame.steps) :
            frame.steps[k].type = "suppressed" =>
                /\ \E j \in 1..(k - 1) : frame.steps[j].type = "table"
                /\ Len(frame.steps[k].content) > MAX_LINES_FOR_REDUNDANCY_CHECK
                       => frame.steps[k].content[1] = "heading"

\* A call that left out a block after a table and kept a later block of more
\* than 7 lines, at least three quarters of which repeat the table.
C22_Witness ==
    /\ pc = "formatted"
    /\ \E j, k, m \in 1..Len(frame.steps) :
           /\ j < k /\ k < m
           /\ frame.steps[j].type = "table"
           /\ frame.steps[k].type = "suppressed"
           /\ frame.steps[m].type = "text"
           /\ Len(frame.steps[m].content) > MAX_LINES_FOR_REDUNDANCY_CHECK
           /\ 4 * echoes(frame.steps[m].content) >= 3 * Len(frame.steps[m].content)

\* C23: when on_start_detailed_comparison has returned, the table view shows
\* the rows of the first markdown table of the stage-2 response of that run, or
\* it shows nothing; it shows no rows of an earlier comparison.
C23_TableViewOfThisRun ==
    (trace.comparison /\ pc = "idle") =>
        \/ comparison_treeview = << >>
        \/ /\ trace.detailed.kind = "text"
           /\ comparison_treeview = first_table_rows(trace.detailed)

====
